---- MODULE Spec2Model ----
(***************************************************************************)
(* Model of deepgaze/color_classification.py: HistogramColorClassifier.    *)
(*                                                                         *)
(* An image is a sequence of BGR pixels.  Floating-point numbers (the      *)
(* normalised histogram values and the comparison scores) are fixed-point  *)
(* integers with Scale units per 1.0, rounded down.  The OpenCV 2.4 and    *)
(* numpy primitives the class calls are modelled by what they compute.     *)
(***************************************************************************)
EXTENDS Integers, Sequences, FiniteSets

VARIABLES channels, hist_size, hist_range, hist_type, model_list, call, ret

config == <<channels, hist_size, hist_range, hist_type>>
vars == <<channels, hist_size, hist_range, hist_type, model_list, call, ret>>

(* ------------------------------ bounds -------------------------------- *)

\* fixed-point units per 1.0
Scale == 100
\* most models registered
MaxModels == 2
\* most pixels of an image
MaxPixels == 2

(* ------------------------------ inputs -------------------------------- *)

Red == <<0, 0, 255>>
Blue == <<255, 0, 0>>
Yellow == <<0, 255, 255>>
Palette == {Red, Blue, Yellow}

Images == UNION {[1..n -> Palette] : n \in 1..MaxPixels}

Methods == {"intersection", "correlation", "bogus"}
SupportedMethods == {"intersection", "correlation"}

Indexes == {-1, 0}

\* constructor arguments the classifier is built with
Configs ==
  { [channels |-> <<0, 1, 2>>, hist_size |-> <<2, 1, 2>>,
     hist_range |-> <<0, 256, 0, 256, 0, 256>>, hist_type |-> "BGR"],
    [channels |-> <<0>>, hist_size |-> <<2>>,
     hist_range |-> <<0, 256>>, hist_type |-> "GRAY"],
    [channels |-> <<0>>, hist_size |-> <<3>>,
     hist_range |-> <<0, 180>>, hist_type |-> "HSV"] }

(* --------------------------- arithmetic -------------------------------- *)

Min(a, b) == IF a <= b THEN a ELSE b
Max(a, b) == IF a >= b THEN a ELSE b

RECURSIVE SumSeq(_)
SumSeq(s) == IF s = <<>> THEN 0 ELSE Head(s) + SumSeq(Tail(s))

RECURSIVE ISqrtIn(_, _, _)
\* the largest r in lo..hi with r*r <= n (lo*lo <= n)
ISqrtIn(n, lo, hi) ==
  IF lo >= hi THEN lo
  ELSE LET mid == (lo + hi + 1) \div 2
       IN IF mid * mid <= n THEN ISqrtIn(n, mid, hi) ELSE ISqrtIn(n, lo, mid - 1)

ISqrt(n) == ISqrtIn(n, 0, Min(n, 46340))

\* a / b rounded down, b # 0
FDiv(a, b) == IF b > 0 THEN a \div b ELSE (0 - a) \div (0 - b)

(* ------------------------ cv2.cvtColor -------------------------------- *)

\* cv2.COLOR_BGR2GRAY on one 8-bit pixel
BGR2GRAY(p) == <<(p[3] * 4899 + p[2] * 9617 + p[1] * 1868 + 8192) \div 16384>>

\* cv2.COLOR_BGR2HSV on one 8-bit pixel (H in 0..179)
BGR2HSV(p) ==
  LET b == p[1]
      g == p[2]
      r == p[3]
      v == Max(r, Max(g, b))
      mn == Min(r, Min(g, b))
      d == v - mn
      s == IF v = 0 THEN 0 ELSE (255 * d) \div v
      deg == IF d = 0 THEN 0
             ELSE IF v = r THEN FDiv(60 * (g - b), d)
             ELSE IF v = g THEN 120 + FDiv(60 * (b - r), d)
             ELSE 240 + FDiv(60 * (r - g), d)
      h == IF deg < 0 THEN deg + 360 ELSE deg
  IN <<h \div 2, s, v>>

\* lines 69-70 and 101-102: the conversion hist_type selects
cvtColor(frame, type) ==
  IF type = "HSV" THEN [i \in 1..Len(frame) |-> BGR2HSV(frame[i])]
  ELSE IF type = "GRAY" THEN [i \in 1..Len(frame) |-> BGR2GRAY(frame[i])]
  ELSE frame

(* ------------------------ cv2.calcHist -------------------------------- *)

RECURSIVE ProdSeq(_)
ProdSeq(s) == IF s = <<>> THEN 1 ELSE Head(s) * ProdSeq(Tail(s))

\* the pixel's value in the k-th histogram dimension
Value(p, chans, k) == p[chans[k] + 1]
Lo(ranges, k) == ranges[2 * k - 1]
Hi(ranges, k) == ranges[2 * k]

\* pixels outside [lo, hi) of a dimension are not counted
InRange(p, chans, ranges) ==
  \A k \in 1..Len(chans) :
    Lo(ranges, k) <= Value(p, chans, k) /\ Value(p, chans, k) < Hi(ranges, k)

BinOf(p, chans, sizes, ranges, k) ==
  ((Value(p, chans, k) - Lo(ranges, k)) * sizes[k]) \div (Hi(ranges, k) - Lo(ranges, k))

RECURSIVE FlatFrom(_, _, _, _, _, _)
\* row-major position of the pixel's bin, 0-based
FlatFrom(p, chans, sizes, ranges, k, acc) ==
  IF k > Len(chans) THEN acc
  ELSE FlatFrom(p, chans, sizes, ranges, k + 1,
                acc * sizes[k] + BinOf(p, chans, sizes, ranges, k))

FlatBin(p, chans, sizes, ranges) == FlatFrom(p, chans, sizes, ranges, 1, 0)

\* cv2.calcHist([frame], chans, None, sizes, ranges), flattened row-major
calcHist(frame, chans, sizes, ranges) ==
  [b \in 1..ProdSeq(sizes) |->
     Cardinality({i \in 1..Len(frame) :
        /\ InRange(frame[i], chans, ranges)
        /\ FlatBin(frame[i], chans, sizes, ranges) = b - 1})]

(* ------------------------ cv2.normalize ------------------------------- *)

\* alpha = 1, norm_type = NORM_L2: every bin divided by the L2 norm
normalize(hist) ==
  LET norm == ISqrt(SumSeq([b \in 1..Len(hist) |-> hist[b] * hist[b]]) * Scale * Scale)
  IN [b \in 1..Len(hist) |->
        IF norm = 0 THEN 0 ELSE (hist[b] * Scale * Scale) \div norm]

\* the conversion, extraction and normalisation of lines 69-72 and 101-105
\* under the configuration c
ExtractHist(c, frame) ==
  normalize(calcHist(cvtColor(frame, c.hist_type), c.channels, c.hist_size, c.hist_range))

self == [channels |-> channels, hist_size |-> hist_size,
         hist_range |-> hist_range, hist_type |-> hist_type]

ImageHist(frame) == ExtractHist(self, frame)

\* the histograms a caller can hold under the current configuration
Histograms == {ImageHist(f) : f \in Images}

(* ------------------------ cv2.compareHist ----------------------------- *)

CV_COMP_INTERSECT(h1, h2) == SumSeq([b \in 1..Len(h1) |-> Min(h1[b], h2[b])])

CV_COMP_CORREL(h1, h2) ==
  LET n == Len(h1)
      s1 == SumSeq(h1)
      s2 == SumSeq(h2)
      s11 == SumSeq([b \in 1..n |-> h1[b] * h1[b]])
      s22 == SumSeq([b \in 1..n |-> h2[b] * h2[b]])
      s12 == SumSeq([b \in 1..n |-> h1[b] * h2[b]])
      num == n * s12 - s1 * s2
      denom2 == (n * s11 - s1 * s1) * (n * s22 - s2 * s2)
  IN IF denom2 = 0 THEN Scale ELSE FDiv(num * Scale, ISqrt(denom2))

(* ------------------------ results of a call --------------------------- *)

NoResult ==
  [kind |-> "none", scalar |-> 0, array |-> <<>>, dist |-> <<>>,
   exc |-> "", msg |-> <<>>, at |-> -1]

Scalar(x) == [NoResult EXCEPT !.kind = "scalar", !.scalar = x]
Array(a) == [NoResult EXCEPT !.kind = "array", !.array = a]
Dist(d) == [NoResult EXCEPT !.kind = "dist", !.dist = d]
Raise(e, m) == [NoResult EXCEPT !.kind = "raise", !.exc = e, !.msg = m]

NoCall == [op |-> "idle", image |-> <<>>, method |-> "", index |-> -1,
           hist_1 |-> <<>>, hist_2 |-> <<>>]

Contains(msg, s) == \E i \in 1..Len(msg) : msg[i] = s

(* --------------------- HistogramColorClassifier ----------------------- *)

Init ==
  /\ \E c \in Configs :
       /\ channels = c.channels
       /\ hist_size = c.hist_size
       /\ hist_range = c.hist_range
       /\ hist_type = c.hist_type
  /\ model_list = <<>>
  /\ call = NoCall
  /\ ret = NoResult

\* a variant that honours index: replaces the model at a valid position
AppendModel_AtIndex(models, model_frame, index) ==
  IF index >= 0 /\ index < Len(models)
  THEN [models EXCEPT ![index + 1] = ImageHist(model_frame)]
  ELSE Append(models, ImageHist(model_frame))

\* the store after addModelHistogram(model_frame, index): index is not used
AppendModel(models, model_frame, index) == Append(models, ImageHist(model_frame))

addModelHistogram ==
  /\ call.op = "idle"
  /\ Len(model_list) < MaxModels
  /\ \E model_frame \in Images, index \in Indexes :
       /\ model_list' = AppendModel(model_list, model_frame, index)
       /\ call' = [NoCall EXCEPT !.op = "addModelHistogram", !.image = model_frame,
                                 !.index = index]
  /\ ret' = NoResult
  /\ UNCHANGED config

UnsupportedMessage(method) ==
  <<"[DEEPGAZE] color_classification.py: the method specified ", method,
    " is not supported.">>

\* the exception of line 89
UnsupportedMethodError == "ValueError"

\* a variant without the final else: any other method falls through to correlation
returnHistogramComparison_NoRaise(hist_1, hist_2, method) ==
  IF method = "intersection" THEN Scalar(CV_COMP_INTERSECT(hist_1, hist_2))
  ELSE Scalar(CV_COMP_CORREL(hist_1, hist_2))

returnHistogramComparison(hist_1, hist_2, method) ==
  IF method = "intersection" THEN Scalar(CV_COMP_INTERSECT(hist_1, hist_2))
  ELSE IF method = "correlation" THEN Scalar(CV_COMP_CORREL(hist_1, hist_2))
  ELSE Raise(UnsupportedMethodError, UnsupportedMessage(method))

RECURSIVE ComparisonLoop(_, _, _, _)
\* the for loop of lines 107-109 from position counter (0-based) on
ComparisonLoop(image_hist, method, counter, comparison_array) ==
  IF counter >= Len(model_list) THEN Array(comparison_array)
  ELSE LET c == returnHistogramComparison(image_hist, model_list[counter + 1], method)
       IN IF c.kind = "raise" THEN [c EXCEPT !.at = counter]
          ELSE ComparisonLoop(image_hist, method, counter + 1,
                 [comparison_array EXCEPT ![counter + 1] = c.scalar])

\* a variant that fills the array from its end
returnHistogramComparisonArray_Reversed(image, method) ==
  LET r == ComparisonLoop(ImageHist(image), method, 0, [i \in 1..Len(model_list) |-> 0])
      n == Len(r.array)
  IN [r EXCEPT !.array = [i \in 1..n |-> r.array[n + 1 - i]]]

\* a variant that checks the method before the loop
returnHistogramComparisonArray_Validated(image, method) ==
  IF method \notin SupportedMethods
  THEN [Raise(UnsupportedMethodError, UnsupportedMessage(method)) EXCEPT !.at = 0]
  ELSE ComparisonLoop(ImageHist(image), method, 0, [i \in 1..Len(model_list) |-> 0])

returnHistogramComparisonArray(image, method) ==
  ComparisonLoop(ImageHist(image), method, 0, [i \in 1..Len(model_list) |-> 0])

\* one element of np.divide(a, s): finite a / s, or inf (sign 1), -inf (-1), nan (0)
npDivide(a, s) ==
  IF s # 0 THEN [fin |-> TRUE, v |-> FDiv(a * Scale, s)]
  ELSE [fin |-> FALSE, v |-> IF a > 0 THEN 1 ELSE IF a < 0 THEN -1 ELSE 0]

RECURSIVE MaxSeq(_)
MaxSeq(s) == IF Len(s) = 1 THEN Head(s) ELSE Max(Head(s), MaxSeq(Tail(s)))

\* a variant that divides by the largest score
Distribution_ByMax(comparison_array) ==
  [i \in 1..Len(comparison_array) |->
     npDivide(comparison_array[i], MaxSeq(comparison_array))]

Distribution(comparison_array) ==
  [i \in 1..Len(comparison_array) |->
     npDivide(comparison_array[i], SumSeq(comparison_array))]

returnHistogramComparisonProbability(image, method) ==
  LET comparison_array == returnHistogramComparisonArray(image, method)
  IN IF comparison_array.kind = "raise" THEN comparison_array
     ELSE Dist(Distribution(comparison_array.array))

\* np.argmax: 0-based position of the first maximum
ArgMax(a) ==
  (CHOOSE i \in 1..Len(a) :
     /\ \A j \in 1..Len(a) : a[j] <= a[i]
     /\ \A j \in 1..(i - 1) : a[j] < a[i]) - 1

\* the error np.argmax raises on an empty array
EmptyModelStoreError == "ValueError"

\* line 135 reads self.returnComparisonArray, which the class does not define
returnBestMatchIndex(image, method) ==
  Raise("AttributeError",
        <<"HistogramColorClassifier instance has no attribute ", "returnComparisonArray">>)

CallReturnHistogramComparison ==
  /\ call.op = "idle"
  /\ \E hist_1 \in Histograms, hist_2 \in Histograms, method \in Methods :
       /\ call' = [NoCall EXCEPT !.op = "returnHistogramComparison",
                                 !.hist_1 = hist_1, !.hist_2 = hist_2,
                                 !.method = method]
       /\ ret' = returnHistogramComparison(hist_1, hist_2, method)
  /\ UNCHANGED <<config, model_list>>

\* a variant that keeps the image's histogram in the store
CallReturnHistogramComparisonArray_Caching ==
  /\ call.op = "idle"
  /\ \E image \in Images, method \in Methods :
       /\ call' = [NoCall EXCEPT !.op = "returnHistogramComparisonArray",
                                 !.image = image, !.method = method]
       /\ ret' = returnHistogramComparisonArray(image, method)
       /\ model_list' = IF Len(model_list) < MaxModels
                        THEN Append(model_list, ImageHist(image)) ELSE model_list
  /\ UNCHANGED config

CallReturnHistogramComparisonArray ==
  /\ call.op = "idle"
  /\ \E image \in Images, method \in Methods :
       /\ call' = [NoCall EXCEPT !.op = "returnHistogramComparisonArray",
                                 !.image = image, !.method = method]
       /\ ret' = returnHistogramComparisonArray(image, method)
  /\ UNCHANGED <<config, model_list>>

CallReturnHistogramComparisonProbability ==
  /\ call.op = "idle"
  /\ \E image \in Images, method \in Methods :
       /\ call' = [NoCall EXCEPT !.op = "returnHistogramComparisonProbability",
                                 !.image = image, !.method = method]
       /\ ret' = returnHistogramComparisonProbability(image, method)
  /\ UNCHANGED <<config, model_list>>

CallReturnBestMatchIndex ==
  /\ call.op = "idle"
  /\ \E image \in Images, method \in Methods :
       /\ call' = [NoCall EXCEPT !.op = "returnBestMatchIndex",
                                 !.image = image, !.method = method]
       /\ ret' = returnBestMatchIndex(image, method)
  /\ UNCHANGED <<config, model_list>>

\* the caller takes the result; the classifier is ready for the next call
ReturnToCaller ==
  /\ call.op # "idle"
  /\ call' = NoCall
  /\ ret' = NoResult
  /\ UNCHANGED <<config, model_list>>

Next ==
  \/ addModelHistogram
  \/ CallReturnHistogramComparison
  \/ CallReturnHistogramComparisonArray
  \/ CallReturnHistogramComparisonProbability
  \/ CallReturnBestMatchIndex
  \/ ReturnToCaller

Spec == Init /\ [][Next]_vars

(* ------------------------------ claims -------------------------------- *)

QueryOps ==
  {"returnHistogramComparison", "returnHistogramComparisonArray",
   "returnHistogramComparisonProbability", "returnBestMatchIndex"}

Abs(x) == IF x < 0 THEN 0 - x ELSE x

\* the scores returnHistogramComparisonArray gives for the call in progress
Scores == returnHistogramComparisonArray(call.image, call.method)

\* C1: with a supported method, returnHistogramComparisonArray returns one
\* score per registered model, the i-th being the comparison of the image's
\* histogram with the i-th registered model, in registration order.
C1_ScoresInRegistrationOrder ==
  (call.op = "returnHistogramComparisonArray" /\ call.method \in SupportedMethods) =>
    LET image_hist == ImageHist(call.image)
    IN /\ ret.kind = "array"
       /\ Len(ret.array) = Len(model_list)
       /\ \A i \in 1..Len(model_list) :
            ret.array[i] =
              returnHistogramComparison(image_hist, model_list[i], call.method).scalar

C1_Witness ==
  /\ call.op = "returnHistogramComparisonArray"
  /\ call.method \in SupportedMethods
  /\ ret.kind = "array"
  /\ Len(ret.array) = 2
  /\ ret.array[1] < ret.array[2]

\* C2: with at least one model registered, returnBestMatchIndex returns the
\* 0-based position of the first maximum of the scores that
\* returnHistogramComparisonArray gives for the same image and method.
C2_BestMatchIsFirstMaximum ==
  (call.op = "returnBestMatchIndex" /\ call.method \in SupportedMethods
     /\ Len(model_list) >= 1) =>
    /\ ret.kind = "scalar"
    /\ ret.scalar = ArgMax(Scores.array)

\* C3: returnHistogramComparison with a method that is neither "intersection"
\* nor "correlation" raises the unsupported-method error, whose message holds
\* the method given; no score is returned and the store and the configuration
\* are as before.
C3_UnsupportedMethodRaises ==
  [][(call'.op = "returnHistogramComparison" /\ call'.method \notin SupportedMethods) =>
       /\ ret'.kind = "raise"
       /\ ret'.exc = UnsupportedMethodError
       /\ Contains(ret'.msg, call'.method)
       /\ model_list' = model_list
       /\ config' = config]_vars

C3_Witness ==
  /\ call.op = "returnHistogramComparison"
  /\ call.method = "bogus"
  /\ ret.kind = "raise"
  /\ Contains(ret.msg, "bogus")
  /\ Len(model_list) >= 1

\* C4: the store starts empty, never gets shorter, and every addModelHistogram
\* call, whatever its index, makes it one longer: the new histogram is last
\* and the earlier ones keep their positions and values.
C4_StoreAppendOnly ==
  /\ model_list = <<>>
  /\ [][/\ Len(model_list') >= Len(model_list)
        /\ call'.op = "addModelHistogram" =>
             /\ Len(model_list') = Len(model_list) + 1
             /\ \A i \in 1..Len(model_list) : model_list'[i] = model_list[i]
             /\ model_list'[Len(model_list) + 1] = ImageHist(call'.image)]_vars

C4_Witness ==
  /\ call.op = "addModelHistogram"
  /\ call.index = 0
  /\ Len(model_list) = 2
  /\ model_list[1] # model_list[2]

\* dist is the scores divided by their sum, and sums to 1 up to rounding
IsDistributionOf(dist, scores) ==
  /\ Len(dist) = Len(scores)
  /\ \A i \in 1..Len(dist) :
       /\ dist[i].fin
       /\ dist[i].v = FDiv(scores[i] * Scale, SumSeq(scores))
  /\ Abs(SumSeq([i \in 1..Len(dist) |-> dist[i].v]) - Scale) <= Len(dist)

C6_EmptyStoreRaises ==
  (call.op = "returnBestMatchIndex" /\ model_list = <<>>) =>
    /\ ret.kind = "raise"
    /\ ret.exc = EmptyModelStoreError

\* C7: the intersection of an extracted histogram with itself is 1 (up to
\* rounding), and no intersection of two extracted histograms exceeds it.
C7_SelfIntersectionIsOne ==
  (call.op = "returnHistogramComparison" /\ call.method = "intersection") =>
    /\ ret.kind = "scalar"
    /\ call.hist_1 = call.hist_2 => Abs(ret.scalar - Scale) <= Len(call.hist_1)
    /\ ret.scalar <= Scale + Len(call.hist_1)

SingleColor(f) == \A i \in 1..Len(f) : f[i] = f[1]

Disjoint(h1, h2) == \A b \in 1..Len(h1) : h1[b] = 0 \/ h2[b] = 0

\* C8: with two single-colour images of disjoint histograms registered, A
\* then B, returnBestMatchIndex with "intersection" returns 0 for A and 1
\* for B.
C8_RegisteredImageFindsItsIndex ==
  \A A \in Images, B \in Images :
    (/\ SingleColor(A) /\ SingleColor(B)
     /\ Disjoint(ImageHist(A), ImageHist(B))
     /\ model_list = <<ImageHist(A), ImageHist(B)>>
     /\ call.op = "returnBestMatchIndex"
     /\ call.method = "intersection") =>
      /\ call.image = A => ret = Scalar(0)
      /\ call.image = B => ret = Scalar(1)

\* C9: no step changes the configuration, and the four query operations,
\* returning or failing, leave the store as it was.
C9_QueriesLeaveStoreAndConfig ==
  [][/\ config' = config
     /\ call'.op \in QueryOps => model_list' = model_list]_vars

C9_Witness ==
  /\ call.op = "returnHistogramComparisonArray"
  /\ ret.kind = "array"
  /\ Len(model_list) = 1
  /\ ret.array # <<0>>

\* C10: with an unsupported method, returnHistogramComparisonArray raises the
\* unsupported-method error exactly when a model is registered, at the first
\* model and without an array; with an empty store it returns an empty array.
C10_MethodCheckedPerModel ==
  (call.op = "returnHistogramComparisonArray" /\ call.method \notin SupportedMethods) =>
    /\ ret.kind = "raise" <=> Len(model_list) >= 1
    /\ Len(model_list) >= 1 =>
         /\ ret.exc = UnsupportedMethodError
         /\ Contains(ret.msg, call.method)
         /\ ret.at = 0
         /\ ret.array = <<>>
    /\ model_list = <<>> => ret = Array(<<>>)

C10_Witness ==
  /\ call.op = "returnHistogramComparisonArray"
  /\ call.method = "bogus"
  /\ model_list = <<>>
  /\ ret = Array(<<>>)

====
